---- MODULE Spec2Model ----
(***************************************************************************)
(* Model of the pairing server of src/index.js (lines 211-624): the        *)
(* per-number session lifecycle driven by POST /pair, the transport's      *)
(* connection.update / creds.update notifications and the timers the       *)
(* handlers arm (harvest, handle shutdown, retry, cleanup).                *)
(*                                                                         *)
(* Timers are untimed: a pending timer may fire at any later step.         *)
(***************************************************************************)
EXTENDS Integers, Sequences, FiniteSets, TLC

(* ------------------------------ bounds -------------------------------- *)
\* POST /pair requests accepted over a run
MaxRequests == 2
\* notifications (connection.update, creds.update) the transport delivers
\* over a run of Spec
MaxEvents == 1
\* notifications the transport delivers over a run of AttemptSpec
AttemptEvents == 4
\* notifications the transport delivers over a run of FairSpec
FairEvents == 2
\* notifications the transport delivers over a run of PairsSpec
PairsEvents == 1

(* ------------------------- program constants --------------------------- *)
\* const maxRetries = 3
maxRetries == 3
\* lastDisconnect?.error?.output?.statusCode of a close without an error
Undefined == 0 - 1
\* DisconnectReason.loggedOut and DisconnectReason.forbidden (Baileys)
loggedOut == 401
forbidden == 403
\* scheduleSessionCleanup(phoneNumber, 1000) at the retry cap, and the
\* default delay of scheduleSessionCleanup (5 minutes)
AbortCleanupDelay == 1000
DefaultCleanupDelay == 300000

\* disconnect reasons the transport may report
Reasons == {Undefined, 401, 403, 408, 411, 428, 440, 500, 503, 515}

(* ------------------------------ inputs -------------------------------- *)
\* A request body's number: an optional leading "+", len characters, which
\* are the digits of phone "A" or contain a non-digit ("x").
Inputs ==
  { [plus |-> FALSE, len |-> 11, body |-> "A"],
    [plus |-> TRUE,  len |-> 11, body |-> "A"],
    [plus |-> FALSE, len |-> 9,  body |-> "A"],
    [plus |-> FALSE, len |-> 16, body |-> "A"],
    [plus |-> FALSE, len |-> 11, body |-> "x"],
    [plus |-> FALSE, len |-> 0,  body |-> "A"] }

\* a pattern test without the upper limit of fifteen digits
WellFormed_NoUpper(input) ==
  /\ input.len >= 10
  /\ input.body # "x"

\* !number || !/^\+?\d{10,15}$/.test(number)
WellFormed(input) ==
  /\ input.len >= 10
  /\ input.len <= 15
  /\ input.body # "x"

\* number.replace(/^\+/, '')
Normalize(input) == [len |-> input.len, body |-> input.body]

\* request bodies with a second number
OtherInputs == { [plus |-> TRUE, len |-> 12, body |-> "A"] }

Numbers == { Normalize(i) : i \in { j \in Inputs \cup OtherInputs : WellFormed(j) } }
\* the numbers of Inputs
FirstNumbers == { Normalize(i) : i \in { j \in Inputs : WellFormed(j) } }
NoNumber == [len |-> 0, body |-> "-"]

(* ------------------------------ values -------------------------------- *)
NoConn == <<0, 0>>
NoCreds == [id |-> NoConn, reg |-> FALSE]
NoCode == <<>>
NoBlob == <<>>
NoState == [status |-> "none", pairingCode |-> NoCode, base64Creds |-> NoBlob]
AbsentDir == [dir |-> FALSE, creds |-> NoCreds]
EmptyDir == [dir |-> TRUE, creds |-> NoCreds]

\* the code the transport hands out on the request of connection <<a, k>>
RawCode(a, k) == <<a, k, a, k, a, k, a, k>>

RECURSIVE Groups(_)
\* code.match(/.{1,4}/g): the code cut into groups of at most four
Groups(raw) ==
  IF Len(raw) = 0 THEN <<>>
  ELSE IF Len(raw) <= 4 THEN <<raw>>
  ELSE <<SubSeq(raw, 1, 4)>> \o Groups(SubSeq(raw, 5, Len(raw)))

\* code?.match(/.{1,4}/g)?.join("-") || code
FormatCode(raw) == IF Len(raw) = 0 THEN raw ELSE Groups(raw)

\* `Sano~${Buffer.from(creds).toString('base64')}`
EncodeCreds(creds) == <<"Sano~", creds>>

(* ------------------------------- state -------------------------------- *)
VARIABLES
  req,            \* the accepted POST /pair requests, in arrival order
  rejected,       \* the reply to the latest POST /pair answered at the boundary
  userSockets,    \* number -> registered connection, or NoConn
  pairingStates,  \* number -> snapshot, or NoState
  disk,           \* number -> session directory
  cleanupTimers,  \* pending scheduleSessionCleanup timers
  events,         \* transport notifications delivered so far
  intact          \* number -> a start was accepted and nothing tore it down since

vars == <<req, rejected, userSockets, pairingStates, disk, cleanupTimers, events, intact>>

(* ----------------------------- records -------------------------------- *)
\* res of a request: what was sent (headersSent iff kind # "none")
NoRes == [kind |-> "none", code |-> NoCode]
Reply(kind) == [kind |-> kind, code |-> NoCode]

\* one invocation of startConnection and, once created, its socket
NewConn ==
  [ pc |-> "load",        \* load, version, code, idle, failed
    st |-> "none",        \* the socket: none, live, closed
    cls |-> "none",       \* how its close was classified
    reason |-> Undefined, \* the reason of its close, until the retry it armed ran
    ka |-> FALSE,         \* keepAliveInterval is set
    auth |-> NoCreds,     \* authState.state.creds
    watch |-> FALSE,      \* checkCompletion listens to creds.update
    hT |-> 0,             \* pending harvest timers (1000 ms)
    inflight |-> <<>>,    \* harvest callbacks awaiting sendMessage
    cT |-> 0,             \* pending handle shutdown timers (2000 ms)
    sent |-> 0,           \* credential blobs handed to sendMessage
    written |-> 0,        \* Completed snapshots written
    retry |-> 0 ]         \* pending setTimeout(startConnection, delay)

Attempts == 1..Len(req)
Conns(a) == 1..Len(req[a].conns)
ConnIds == UNION { { <<a, k>> : k \in Conns(a) } : a \in Attempts }
conn(a, k) == req[a].conns[k]
headersSent(a) == req[a].res.kind # "none"

\* a reply that is sent whether or not the request was answered before
Respond_Unguarded(r, a, reply) == [r EXCEPT ![a].res = reply]

\* res.status(..).json(..) under "if (res && !res.headersSent)"
Respond(r, a, reply) ==
  IF r[a].res.kind = "none" THEN [r EXCEPT ![a].res = reply] ELSE r

\* a removal that empties the whole of SESSION_DIR
RmDir_All(d, n) == [m \in DOMAIN d |-> AbsentDir]

\* a removal that leaves the directory in place
RmDir_Keep(d, n) == d

\* rmSync(sessionDir, { recursive: true, force: true })
RmDir(d, n) == [d EXCEPT ![n] = AbsentDir]
\* rmSync(sessionDir); mkdirSync(sessionDir)
FreshDir(d, n) == [d EXCEPT ![n] = EmptyDir]
\* if (!existsSync(sessionDir)) mkdirSync(sessionDir, { recursive: true })
MkDir(d, n) == IF d[n].dir THEN d ELSE [d EXCEPT ![n] = EmptyDir]

\* scheduleSessionCleanup(phoneNumber, delay)
ScheduleCleanup(t, n, delay) == [t EXCEPT ![<<n, delay>>] = @ + 1]

CleanupDelays == {AbortCleanupDelay, DefaultCleanupDelay}

\* what SESSION_DIR may hold for a number when the server starts: nothing,
\* or the directory an earlier run of the server left behind
Leftover(reg) == [dir |-> TRUE, creds |-> [id |-> <<0, 1>>, reg |-> reg]]
StoredDirs == {AbsentDir, Leftover(FALSE), Leftover(TRUE)}

(* ------------------------------- Init --------------------------------- *)
\* the server has just started with SESSION_DIR holding stored
InitWith(stored) ==
  /\ req = <<>>
  /\ rejected = [kind |-> "none", num |-> NoNumber]
  /\ userSockets = [n \in Numbers |-> NoConn]
  /\ pairingStates = [n \in Numbers |-> NoState]
  /\ disk = stored
  /\ cleanupTimers = [t \in Numbers \X CleanupDelays |-> 0]
  /\ events = 0
  /\ intact = [n \in Numbers |-> FALSE]

\* only the numbers of Inputs may have a directory from an earlier run
Init ==
  \E stored \in [Numbers -> StoredDirs] :
    /\ \A n \in Numbers \ FirstNumbers : stored[n] = AbsentDir
    /\ InitWith(stored)

(* ------------------------- POST /pair (524-554) ----------------------- *)
\* startConnection up to its first await (292-312), run by attempt a
StartConnection(r, a) ==
  [r EXCEPT ![a].conns = Append(@, NewConn)]

\* a retry-cap guard that never stops the loop
CapReached_Never(rc) == FALSE

\* a retry-cap guard that lets one more connection through
CapReached_OffByOne(rc) == rc > maxRetries

\* the retry-cap guard of startConnection (293)
CapReached(rc) == rc >= maxRetries

\* another start for the same number is between its registry check (536)
\* and the registration of its handle (344)
InWindow(n) ==
  { b \in Attempts : /\ req[b].num = n
                     /\ Len(req[b].conns) = 1
                     /\ req[b].conns[1].pc \in {"load", "version"} }

Max(S) == IF S = {} THEN 0 ELSE CHOOSE x \in S : \A y \in S : y <= x

\* a registry check that looks at the snapshots instead of the handles
Active_Snapshot(n) == pairingStates[n] # NoState

\* userSockets.has(number)
Active(n) == userSockets[n] # NoConn

RECURSIVE SumOver(_, _)
SumOver(f, S) ==
  IF S = {} THEN 0
  ELSE LET x == CHOOSE y \in S : TRUE IN f[x] + SumOver(f, S \ {x})

\* the scheduleSessionCleanup calls made for number n so far: one by each
\* handle shutdown that ran (396), one by each attempt that gave up (301)
Armed(n) ==
  SumOver([a \in Attempts |->
             IF req[a].num # n THEN 0
             ELSE (IF req[a].aborted THEN 1 ELSE 0)
                  + SumOver([k \in Conns(a) |-> conn(a, k).written - conn(a, k).cT],
                            Conns(a))],
          Attempts)

\* raced: the earlier start that was in its window when this one was accepted;
\* aborted: startConnection gave up at the retry cap (293-302);
\* armedBefore: the cleanups scheduled for the number before this start
NewRequest(n) ==
  [num |-> n, res |-> NoRes, retryCount |-> 0, conns |-> <<>>, raced |-> 0,
   aborted |-> FALSE, armedBefore |-> Armed(n)]

Pair(input) ==
  IF ~WellFormed(input)
  THEN /\ rejected' = [kind |-> "invalid", num |-> NoNumber]
       /\ UNCHANGED <<req, userSockets, pairingStates, disk, cleanupTimers, events, intact>>
  ELSE LET n == Normalize(input) IN
       IF Active(n)
       THEN /\ rejected' = [kind |-> "conflict", num |-> n]
            /\ UNCHANGED <<req, userSockets, pairingStates, disk, cleanupTimers, events, intact>>
       ELSE /\ Len(req) < MaxRequests
            /\ req' = StartConnection(
                        Append(req, [NewRequest(n) EXCEPT !.raced = Max(InWindow(n))]),
                        Len(req) + 1)
            /\ disk' = MkDir(disk, n)
            /\ intact' = [intact EXCEPT ![n] = TRUE]
            /\ UNCHANGED <<rejected, userSockets, pairingStates, cleanupTimers, events>>

(* ----------------------- startConnection (292-508) -------------------- *)
\* authState = await useMultiFileAuthState(sessionDir), with the recovery
\* of a store that cannot be read (312-319)
LoadAuth(a, k, corrupt) ==
  /\ conn(a, k).pc = "load"
  /\ LET n == req[a].num
         d == IF corrupt THEN FreshDir(disk, n) ELSE MkDir(disk, n)
         creds == IF d[n].creds = NoCreds THEN [id |-> <<a, k>>, reg |-> FALSE]
                  ELSE d[n].creds
     IN /\ disk' = d
        /\ req' = [req EXCEPT ![a].conns[k].pc = "version",
                              ![a].conns[k].auth = creds]
  /\ UNCHANGED <<rejected, userSockets, pairingStates, cleanupTimers, events, intact>>

\* a pending snapshot that drops the code it is given
Pending_NoCode(code) == [status |-> "pending", pairingCode |-> NoCode, base64Creds |-> NoBlob]

\* pairingStates.set(phoneNumber, {status: 'pending', pairingCode: code})
Pending(code) == [status |-> "pending", pairingCode |-> code, base64Creds |-> NoBlob]
\* a completed snapshot that drops the blob it is given
Completed_NoBlob(blob) == [status |-> "completed", pairingCode |-> NoCode, base64Creds |-> NoBlob]

\* pairingStates.set(phoneNumber, {status: 'completed', base64Creds})
Completed(blob) == [status |-> "completed", pairingCode |-> NoCode, base64Creds |-> blob]

\* if (!code || retryCount > 0): a code is requested from the transport
NeedsCode(code, rc) == code = NoCode \/ rc > 0

\* the fetch of the version resolves: makeWASocket, userSockets.set, the
\* keep-alive, the handlers, and the pairing branch up to its await (321-457)
Connect(a, k) ==
  /\ conn(a, k).pc = "version"
  /\ LET n == req[a].num
         c == [conn(a, k) EXCEPT !.st = "live", !.ka = TRUE]
         code == pairingStates[n].pairingCode
     IN /\ userSockets' = [userSockets EXCEPT ![n] = <<a, k>>]
        /\ IF ~c.auth.reg
           THEN IF NeedsCode(code, req[a].retryCount)
                THEN /\ req' = [req EXCEPT ![a].conns[k] = [c EXCEPT !.pc = "code"]]
                     /\ UNCHANGED pairingStates
                ELSE /\ pairingStates' = [pairingStates EXCEPT ![n] = Pending(code)]
                     /\ req' = Respond(
                           [req EXCEPT ![a].conns[k] = [c EXCEPT !.pc = "idle", !.watch = TRUE]],
                           a, [kind |-> "code", code |-> code])
           ELSE /\ req' = Respond(
                      [req EXCEPT ![a].conns[k] = [c EXCEPT !.pc = "idle", !.ka = FALSE]],
                      a, Reply("registered"))
                /\ UNCHANGED pairingStates
  /\ UNCHANGED <<rejected, disk, cleanupTimers, events, intact>>

\* sock.requestPairingCode resolves (457-485)
CodeResolve(a, k) ==
  /\ conn(a, k).pc = "code"
  /\ conn(a, k).st = "live"
  /\ LET n == req[a].num
         code == FormatCode(RawCode(a, k))
     IN /\ pairingStates' = [pairingStates EXCEPT ![n] = Pending(code)]
        /\ req' = Respond(
              [req EXCEPT ![a].conns[k].pc = "idle", ![a].conns[k].watch = TRUE],
              a, [kind |-> "code", code |-> code])
  /\ UNCHANGED <<rejected, userSockets, disk, cleanupTimers, events, intact>>

\* sock.requestPairingCode rejects (487-496)
CodeReject(a, k) ==
  /\ conn(a, k).pc = "code"
  /\ req' = Respond(
        [req EXCEPT ![a].conns[k].pc = "failed", ![a].conns[k].ka = FALSE],
        a, Reply("generation"))
  /\ UNCHANGED <<rejected, userSockets, pairingStates, disk, cleanupTimers, events, intact>>

(* -------------------- connection.update (362-448) --------------------- *)
\* case "open": the keep-alive is cleared and the harvest is armed (367-405)
Open(a, k) ==
  /\ conn(a, k).st = "live"
  /\ events' = events + 1
  /\ req' = [req EXCEPT ![a].conns[k].ka = FALSE, ![a].conns[k].hT = @ + 1]
  /\ UNCHANGED <<rejected, userSockets, pairingStates, disk, cleanupTimers, intact>>

\* the harvest timer fires: creds.json is read, encoded and handed to
\* sendMessage (371-379); without creds.json only an error is logged (399)
HarvestFire(a, k) ==
  /\ conn(a, k).hT > 0
  /\ LET creds == disk[req[a].num].creds
     IN req' = IF creds # NoCreds
               THEN [req EXCEPT ![a].conns[k].hT = @ - 1,
                                ![a].conns[k].sent = @ + 1,
                                ![a].conns[k].inflight = Append(@, EncodeCreds(creds))]
               ELSE [req EXCEPT ![a].conns[k].hT = @ - 1]
  /\ UNCHANGED <<rejected, userSockets, pairingStates, disk, cleanupTimers, events, intact>>

Remove(seq, i) == SubSeq(seq, 1, i - 1) \o SubSeq(seq, i + 1, Len(seq))

\* the three sendMessage calls resolve: the snapshot is written and the
\* shutdown of the handle is armed (379-397)
HarvestDone(a, k, i) ==
  /\ i \in 1..Len(conn(a, k).inflight)
  /\ conn(a, k).st = "live"
  /\ pairingStates' = [pairingStates EXCEPT ![req[a].num] = Completed(conn(a, k).inflight[i])]
  /\ req' = [req EXCEPT ![a].conns[k].inflight = Remove(@, i),
                        ![a].conns[k].written = @ + 1,
                        ![a].conns[k].cT = @ + 1]
  /\ UNCHANGED <<rejected, userSockets, disk, cleanupTimers, events, intact>>

\* a sendMessage call throws: the error is logged (401-403)
HarvestFail(a, k, i) ==
  /\ i \in 1..Len(conn(a, k).inflight)
  /\ req' = [req EXCEPT ![a].conns[k].inflight = Remove(@, i)]
  /\ UNCHANGED <<rejected, userSockets, pairingStates, disk, cleanupTimers, events, intact>>

\* a classification that takes the forbidden reason for a retryable one
Classify_NoForbidden(reason) ==
  IF reason = loggedOut \/ reason = 401 THEN "Fatal" ELSE "Retryable"

(* the classification of a disconnect reason (411, 422, 433) *)
Classify(reason) ==
  IF reason = loggedOut \/ reason = 401 THEN "Fatal"
  ELSE IF reason = forbidden \/ reason = 403 THEN "Forbidden"
  ELSE "Retryable"

\* a delay table without the entry of 503
retryDelays_No503(reason) ==
  CASE reason = 428 -> 10000
    [] reason = 408 -> 5000
    [] reason = 440 -> 2000
    [] reason = 500 -> 5000
    [] reason = 515 -> 2000
    [] OTHER -> 5000

\* const retryDelays = {...} and retryDelays[reason] || retryDelays.default
retryDelays(reason) ==
  CASE reason = 428 -> 10000
    [] reason = 408 -> 5000
    [] reason = 440 -> 2000
    [] reason = 500 -> 5000
    [] reason = 503 -> 60000
    [] reason = 515 -> 2000
    [] OTHER -> 5000

\* the retryable branch of case "close" (433-438)
CloseRetry(r, a, k, reason) ==
  [r EXCEPT ![a].retryCount = @ + 1,
            ![a].conns[k].st = "closed",
            ![a].conns[k].ka = FALSE,
            ![a].conns[k].cls = "Retryable",
            ![a].conns[k].reason = reason,
            ![a].conns[k].retry = retryDelays(reason)]

\* case "close" (407-439)
Close(a, k, reason) ==
  /\ conn(a, k).st = "live"
  /\ events' = events + 1
  /\ LET n == req[a].num
         cls == Classify(reason)
     IN IF cls = "Retryable"
        THEN /\ req' = CloseRetry(req, a, k, reason)
             /\ UNCHANGED <<userSockets, pairingStates, disk, intact>>
        ELSE /\ userSockets' = [userSockets EXCEPT ![n] = NoConn]
             /\ pairingStates' = [pairingStates EXCEPT ![n] = NoState]
             /\ disk' = RmDir(disk, n)
             /\ intact' = [intact EXCEPT ![n] = FALSE]
             /\ req' = Respond(
                   [req EXCEPT ![a].conns[k].st = "closed",
                               ![a].conns[k].ka = FALSE,
                               ![a].conns[k].cls = cls,
                               ![a].conns[k].reason = reason],
                   a, Reply(IF cls = "Fatal" THEN "401" ELSE "403"))
  /\ UNCHANGED <<rejected, cleanupTimers>>

\* setTimeout(startConnection, delay) fires: startConnection up to its
\* first await (292-312)
RetryFire(a, k) ==
  /\ conn(a, k).retry > 0
  /\ LET n == req[a].num
         r == [req EXCEPT ![a].conns[k].retry = 0, ![a].conns[k].reason = Undefined]
     IN IF CapReached(req[a].retryCount)
        THEN /\ req' = Respond([r EXCEPT ![a].aborted = TRUE], a, Reply("maxretries"))
             /\ cleanupTimers' = ScheduleCleanup(cleanupTimers, n, AbortCleanupDelay)
             /\ UNCHANGED disk
        ELSE /\ req' = StartConnection(r, a)
             /\ disk' = IF req[a].retryCount > 0 THEN FreshDir(disk, n) ELSE disk
             /\ UNCHANGED cleanupTimers
  /\ UNCHANGED <<rejected, userSockets, pairingStates, events, intact>>

\* the shutdown timer fires: sock.end(), which makes a live handle report
\* "close" without a reason, then the handle is unregistered and the
\* cleanup is scheduled (391-397)
ShutdownFire(a, k) ==
  /\ conn(a, k).cT > 0
  /\ LET n == req[a].num
         r == [req EXCEPT ![a].conns[k].cT = @ - 1, ![a].conns[k].ka = FALSE]
     IN /\ req' = IF conn(a, k).st = "live" THEN CloseRetry(r, a, k, Undefined) ELSE r
        /\ userSockets' = [userSockets EXCEPT ![n] = NoConn]
        /\ cleanupTimers' = ScheduleCleanup(cleanupTimers, n, DefaultCleanupDelay)
  /\ intact' = [intact EXCEPT ![req[a].num] = FALSE]
  /\ UNCHANGED <<rejected, pairingStates, disk, events>>

(* ------------------- scheduleSessionCleanup (262-272) ----------------- *)
CleanupFire(n, delay) ==
  /\ cleanupTimers[<<n, delay>>] > 0
  /\ cleanupTimers' = [cleanupTimers EXCEPT ![<<n, delay>>] = @ - 1]
  /\ disk' = RmDir(disk, n)
  /\ userSockets' = [userSockets EXCEPT ![n] = NoConn]
  /\ pairingStates' = [pairingStates EXCEPT ![n] = NoState]
  /\ intact' = [intact EXCEPT ![n] = FALSE]
  /\ UNCHANGED <<rejected, req, events>>

(* ----------------------- creds.update (341, 477-485) ------------------ *)
\* the transport updates the credentials of a live handle: saveCreds
\* writes creds.json, and checkCompletion clears the keep-alive once the
\* credentials are registered
CredsUpdate(a, k, reg) ==
  /\ conn(a, k).st = "live"
  /\ conn(a, k).auth.reg => reg
  /\ events' = events + 1
  /\ LET n == req[a].num
         creds == [conn(a, k).auth EXCEPT !.reg = reg]
         done == conn(a, k).watch /\ reg
     IN /\ disk' = IF disk[n].dir THEN [disk EXCEPT ![n].creds = creds] ELSE disk
        /\ req' = [req EXCEPT ![a].conns[k].auth = creds,
                              ![a].conns[k].watch = IF done THEN FALSE ELSE @,
                              ![a].conns[k].ka = IF done THEN FALSE ELSE @]
  /\ UNCHANGED <<rejected, userSockets, pairingStates, cleanupTimers, intact>>

(* ------------------------------- Next --------------------------------- *)
\* each step, taken by any startConnection invocation or handle
AnyLoadAuth == \E a \in Attempts : \E k \in Conns(a) : \E corrupt \in BOOLEAN : LoadAuth(a, k, corrupt)
AnyConnect == \E a \in Attempts : \E k \in Conns(a) : Connect(a, k)
AnyCodeResolve == \E a \in Attempts : \E k \in Conns(a) : CodeResolve(a, k)
AnyCodeReject == \E a \in Attempts : \E k \in Conns(a) : CodeReject(a, k)
AnyHarvestFire == \E a \in Attempts : \E k \in Conns(a) : HarvestFire(a, k)
AnyHarvestDone == \E a \in Attempts : \E k \in Conns(a) : \E i \in 1..Len(conn(a, k).inflight) : HarvestDone(a, k, i)
AnyHarvestFail == \E a \in Attempts : \E k \in Conns(a) : \E i \in 1..Len(conn(a, k).inflight) : HarvestFail(a, k, i)
AnyRetryFire == \E a \in Attempts : \E k \in Conns(a) : RetryFire(a, k)
AnyShutdownFire == \E a \in Attempts : \E k \in Conns(a) : ShutdownFire(a, k)
AnyCleanupFire == \E n \in Numbers, delay \in CleanupDelays : CleanupFire(n, delay)
\* each notification of the transport, while fewer than max were delivered
AnyOpen(max) == events < max /\ \E a \in Attempts : \E k \in Conns(a) : Open(a, k)
AnyClose(max) == events < max /\ \E a \in Attempts : \E k \in Conns(a) : \E reason \in Reasons : Close(a, k, reason)
AnyCredsUpdate(max) == events < max /\ \E a \in Attempts : \E k \in Conns(a) : \E reg \in BOOLEAN : CredsUpdate(a, k, reg)

AnyPair == \E input \in Inputs : Pair(input)

Next ==
  \/ AnyPair
  \/ AnyLoadAuth
  \/ AnyConnect
  \/ AnyCodeResolve
  \/ AnyCodeReject
  \/ AnyHarvestFire
  \/ AnyHarvestDone
  \/ AnyHarvestFail
  \/ AnyRetryFire
  \/ AnyShutdownFire
  \/ AnyCleanupFire
  \/ AnyOpen(MaxEvents)
  \/ AnyClose(MaxEvents)
  \/ AnyCredsUpdate(MaxEvents)

Spec == Init /\ [][Next]_vars

\* one pairing attempt: the server receives a single well-formed request
FirstPair == \E input \in { i \in Inputs : WellFormed(i) } : req = <<>> /\ Pair(input)

AttemptNext ==
  \/ FirstPair
  \/ AnyLoadAuth
  \/ AnyConnect
  \/ AnyCodeResolve
  \/ AnyCodeReject
  \/ AnyHarvestFire
  \/ AnyHarvestDone
  \/ AnyHarvestFail
  \/ AnyRetryFire
  \/ AnyShutdownFire
  \/ AnyCleanupFire
  \/ AnyOpen(AttemptEvents)
  \/ AnyClose(AttemptEvents)
  \/ AnyCredsUpdate(AttemptEvents)

AttemptSpec == Init /\ [][AttemptNext]_vars

\* a request that is answered at the boundary (527-541)
Refused == \E input \in Inputs :
  /\ IF WellFormed(input) THEN Active(Normalize(input)) ELSE TRUE
  /\ Pair(input)

\* one pairing attempt whose awaits settle and whose timers fire, and the
\* requests refused meanwhile
FairNext ==
  \/ FirstPair
  \/ Refused
  \/ AnyLoadAuth
  \/ AnyConnect
  \/ AnyCodeResolve
  \/ AnyCodeReject
  \/ AnyHarvestFire
  \/ AnyHarvestDone
  \/ AnyHarvestFail
  \/ AnyRetryFire
  \/ AnyShutdownFire
  \/ AnyCleanupFire
  \/ AnyOpen(FairEvents)
  \/ AnyClose(FairEvents)
  \/ AnyCredsUpdate(FairEvents)

\* an awaited promise settles, a timer that was armed fires
Settles ==
  /\ WF_vars(AnyLoadAuth)
  /\ WF_vars(AnyConnect)
  /\ WF_vars(AnyCodeResolve \/ AnyCodeReject)
  /\ WF_vars(AnyHarvestFire)
  /\ WF_vars(AnyHarvestDone \/ AnyHarvestFail)
  /\ WF_vars(AnyRetryFire)
  /\ WF_vars(AnyShutdownFire)
  /\ WF_vars(AnyCleanupFire)

FairSpec == Init /\ [][FairNext]_vars /\ Settles

\* a start for a number that was not started before
StartOnce == \E input \in Inputs \cup OtherInputs :
  /\ WellFormed(input)
  /\ \A a \in Attempts : req[a].num # Normalize(input)
  /\ Pair(input)

\* the pairings of two numbers side by side, one attempt each
PairsNext ==
  \/ StartOnce
  \/ AnyLoadAuth
  \/ AnyConnect
  \/ AnyCodeResolve
  \/ AnyCodeReject
  \/ AnyHarvestFire
  \/ AnyHarvestDone
  \/ AnyHarvestFail
  \/ AnyRetryFire
  \/ AnyShutdownFire
  \/ AnyCleanupFire
  \/ AnyOpen(PairsEvents)
  \/ AnyClose(PairsEvents)
  \/ AnyCredsUpdate(PairsEvents)

PairsInit == \E stored \in [Numbers -> StoredDirs] : InitWith(stored)

PairsSpec == PairsInit /\ [][PairsNext]_vars

(* ------------------------------ queries -------------------------------- *)
\* GET /status/:number (557-576)
StatusOf(states, n) ==
  LET state == states[n] IN
  IF state = NoState THEN [http |-> 404, status |-> "none", pairingCode |-> NoCode]
  ELSE [http |-> 200, status |-> state.status,
        pairingCode |-> IF state.status = "pending" THEN state.pairingCode ELSE NoCode]

\* GET /session/:number (579-603)
SessionOf(states, n) ==
  LET state == states[n] IN
  IF state = NoState THEN [http |-> 404, sessionId |-> NoBlob]
  ELSE IF state.status # "completed" THEN [http |-> 400, sessionId |-> NoBlob]
  ELSE [http |-> 200, sessionId |-> state.base64Creds]

(* ----------------------------- properties ------------------------------ *)
\* the latest accepted start for number n (0: none)
Latest(n) == Max({ a \in Attempts : req[a].num = n })

\* the latest accepted start for n has been answered, and no terminal
\* disconnect, handle shutdown or cleanup touched n since it was accepted
Succession(n) ==
  /\ intact[n]
  /\ Latest(n) # 0
  /\ headersSent(Latest(n))

\* C1: a start for a number whose previous start was answered, with no
\* terminal disconnect or cleanup for that number in between, is answered
\* with the conflict reply and opens no transport session.
C1_SecondStartConflicts ==
  [][\A input \in Inputs :
       (WellFormed(input) /\ Succession(Normalize(input)) /\ Pair(input))
       => /\ rejected' = [kind |-> "conflict", num |-> Normalize(input)]
          /\ req' = req
          /\ userSockets' = userSockets]_vars

C1_Witness ==
  \E n \in Numbers :
    /\ rejected = [kind |-> "conflict", num |-> n]
    /\ Succession(n)
    /\ req[Latest(n)].res.kind = "code"

\* C2: of two starts for one number that overlap between the registry check
\* and the registration of the handle, one gets a pairing code and the other
\* the conflict reply.
C2_ExactlyOneSucceeds ==
  \A b \in Attempts :
    req[b].raced # 0 =>
      LET a == req[b].raced IN
      /\ (req[a].res.kind = "code" /\ headersSent(b)) => req[b].res.kind = "conflict"
      /\ (req[b].res.kind = "code" /\ headersSent(a)) => req[a].res.kind = "conflict"

\* the handles of number n that were opened and have not closed
LiveHandles(n) ==
  { id \in ConnIds : req[id[1]].num = n /\ conn(id[1], id[2]).st = "live" }
\* the pending setTimeout(startConnection, delay) timers of number n
RetryTimers(n) ==
  { id \in ConnIds : req[id[1]].num = n /\ conn(id[1], id[2]).retry > 0 }
\* the pending cleanup timers of number n
CleanupPending(n) ==
  cleanupTimers[<<n, AbortCleanupDelay>>] + cleanupTimers[<<n, DefaultCleanupDelay>>]

\* C3: per number at most one live transport handle, one pending retry and
\* one pending cleanup timer.
C3_OnePerNumber ==
  \A n \in Numbers :
    /\ Cardinality(LiveHandles(n)) <= 1
    /\ Cardinality(RetryTimers(n)) <= 1
    /\ CleanupPending(n) <= 1

\* every pairing-code request of number n that is still outstanding was made
\* by a connection opened after an earlier one of its attempt had harvested
NoEarlierRequest(n) ==
  \A a \in Attempts : \A k \in Conns(a) :
    (req[a].num = n /\ conn(a, k).pc = "code") =>
      \E j \in 1..(k - 1) : conn(a, j).written > 0

\* C4: a Completed snapshot holds a non-empty credential blob, and a step
\* leaves it as it is or removes it: it never changes its blob and never
\* returns to Pending. (Stated for the states in which no pairing-code
\* request from before the harvest is outstanding.)
C4_CompletedAbsorbing ==
  [][\A n \in Numbers :
       (pairingStates[n].status = "completed" /\ NoEarlierRequest(n)) =>
         /\ pairingStates[n].base64Creds # NoBlob
         /\ pairingStates'[n] = pairingStates[n] \/ pairingStates'[n] = NoState]_vars

\* the transport sessions opened for attempt a
Sessions(a) == { k \in Conns(a) : conn(a, k).st # "none" }

\* C5: retryCount never exceeds the cap, at most cap transport sessions are
\* opened for an attempt, and once the cap is reached every session of the
\* attempt is closed and none is being opened.
C5_RetryBounded ==
  \A a \in Attempts :
    /\ req[a].retryCount <= maxRetries
    /\ Len(req[a].conns) <= maxRetries
    /\ req[a].retryCount >= maxRetries =>
         \A k \in Conns(a) : conn(a, k).st = "closed"

C5_Witness ==
  \E a \in Attempts :
    /\ req[a].retryCount = maxRetries
    /\ Cardinality(Sessions(a)) = maxRetries
    /\ req[a].aborted

\* a step of the manager: an await that resolves or a timer that fires
ManagerStep ==
  \/ AnyLoadAuth \/ AnyConnect \/ AnyCodeResolve \/ AnyCodeReject
  \/ AnyHarvestFire \/ AnyHarvestDone \/ AnyHarvestFail
  \/ AnyRetryFire \/ AnyShutdownFire \/ AnyCleanupFire

\* C6: every session leaves Pending, also when no confirmation and no
\* disconnect ever arrives: while a snapshot is Pending, a timer or an await
\* of the manager is still to run.
C6_PendingLeaves ==
  (\E n \in Numbers : pairingStates[n].status = "pending") => ENABLED ManagerStep

\* C7: on one transport handle the credential blob is handed to sendMessage
\* at most once and the Completed snapshot is written at most once.
C7_DeliveredOnce ==
  \A a \in Attempts : \A k \in Conns(a) :
    conn(a, k).sent <= 1 /\ conn(a, k).written <= 1

\* C8: the step in which a handle reports "close" with 401 or 403 while the
\* snapshot is Pending removes both registry entries and the storage of the
\* number, leaves no retry of the attempt pending, and a status query
\* answers 404 afterwards.
C8_TerminalCloseDestroys ==
  [][\A a \in Attempts : \A k \in Conns(a) : \A reason \in {401, 403} :
       (pairingStates[req[a].num].status = "pending" /\ Close(a, k, reason))
       => LET n == req[a].num IN
          /\ userSockets'[n] = NoConn
          /\ pairingStates'[n] = NoState
          /\ disk'[n] = AbsentDir
          /\ \A j \in 1..Len(req'[a].conns) :
               req'[a].conns[j].retry = 0 /\ req'[a].conns[j].pc \notin {"load", "version"}
          /\ StatusOf(pairingStates', n).http = 404]_vars

C8_Witness ==
  \E a \in Attempts :
    LET n == req[a].num IN
    /\ Len(req[a].conns) = 1
    /\ conn(a, 1).cls = "Forbidden"
    /\ conn(a, 1).watch
    /\ conn(a, 1).written = 0
    /\ req[a].res.kind = "code"
    /\ StatusOf(pairingStates, n).http = 404
    /\ userSockets[n] = NoConn
    /\ disk[n] = AbsentDir

\* the handles of attempt a whose close was classified as retryable
RetryableCloses(a) == { k \in Conns(a) : conn(a, k).cls = "Retryable" }

\* C9: after three retryable closes of one attempt no fourth transport
\* session is opened: the retry armed by the third close is pending or has
\* given up, and giving up schedules the cleanup of the number.
C9_ThirdCloseTerminates ==
  /\ [](\A a \in Attempts :
          Cardinality(RetryableCloses(a)) >= 3 =>
            /\ Len(req[a].conns) = 3
            /\ conn(a, 3).retry > 0 \/ req[a].aborted)
  /\ [][\A a \in Attempts :
          (~req[a].aborted /\ req'[a].aborted) =>
            cleanupTimers'[<<req[a].num, AbortCleanupDelay>>]
              = cleanupTimers[<<req[a].num, AbortCleanupDelay>>] + 1]_vars

C9_Witness ==
  \E a \in Attempts :
    /\ \A k \in Conns(a) : conn(a, k).cls = "Retryable"
    /\ Len(req[a].conns) = 3
    /\ req[a].aborted
    /\ cleanupTimers[<<req[a].num, AbortCleanupDelay>>] = 1

\* the delay table as specified, reason by reason
TableDelay(reason) ==
  IF reason = 428 THEN 10000
  ELSE IF reason = 503 THEN 60000
  ELSE IF reason \in {440, 515} THEN 2000
  ELSE 5000

\* C10: every close is classified as exactly one of Fatal (401), Forbidden
\* (403) and Retryable (every other reason), and the retry armed by a
\* Retryable close waits the delay the table gives its reason.
C10_ClassifierTotal ==
  \A a \in Attempts : \A k \in Conns(a) :
    LET c == conn(a, k) IN
    /\ c.st = "closed" => c.cls \in {"Fatal", "Forbidden", "Retryable"}
    /\ c.cls = "Fatal" <=> (c.st = "closed" /\ c.reason = 401)
    /\ c.cls = "Forbidden" <=> (c.st = "closed" /\ c.reason = 403)
    /\ c.retry > 0 => (c.cls = "Retryable" /\ c.retry = TableDelay(c.reason))

C10_Witness ==
  \E a \in Attempts :
    /\ Len(req[a].conns) = 2
    /\ conn(a, 1).cls = "Retryable"
    /\ conn(a, 2).cls = "Retryable"
    /\ conn(a, 2).reason = 411
    /\ conn(a, 2).retry = 5000

\* C11: in the step in which a start is answered with pairing code c, the
\* snapshot of its number is Pending with pairingCode = c, and a status
\* query on that state answers pending with the same code.
C11_CodeMatchesSnapshot ==
  [][\A a \in Attempts :
       (req[a].res.kind = "none" /\ req'[a].res.kind = "code")
       => LET n == req[a].num
              c == req'[a].res.code
          IN /\ pairingStates'[n] = Pending(c)
             /\ StatusOf(pairingStates', n)
                  = [http |-> 200, status |-> "pending", pairingCode |-> c]]_vars

C11_Witness ==
  \E a \in Attempts :
    /\ req[a].res.kind = "code"
    /\ Len(req[a].conns) = 1
    /\ conn(a, 1).pc = "idle"
    /\ ~conn(a, 1).auth.reg
    /\ conn(a, 1).auth.id = <<a, 1>>
    /\ req[a].res.code = FormatCode(RawCode(a, 1))
    /\ StatusOf(pairingStates, req[a].num)
         = [http |-> 200, status |-> "pending", pairingCode |-> req[a].res.code]

C13_NoRetryAfterFailure ==
  [][\A a \in Attempts :
       (\E k \in Conns(a) : conn(a, k).pc = "failed")
       => \A j \in Conns(a) :
            /\ conn(a, j).st = "none" => req'[a].conns[j].st = "none"
            /\ conn(a, j).pc # "code" => req'[a].conns[j].pc # "code"]_vars

\* the pattern of a number: ten to fifteen digits after an optional "+"
MatchesPattern(input) == input.len \in 10..15 /\ input.body = "A"

\* C14: a start whose number fails the pattern, or whose number has an
\* active session, is answered with an error and changes nothing: the two
\* registry maps, the storage, every timer and every connection stay as
\* they were, and no transport session is opened.
C14_RefusalChangesNothing ==
  [][\A input \in Inputs :
       (Pair(input) /\ (IF MatchesPattern(input)
                         THEN userSockets[Normalize(input)] # NoConn ELSE TRUE))
       => /\ rejected'.kind = IF MatchesPattern(input) THEN "conflict" ELSE "invalid"
          /\ UNCHANGED <<req, userSockets, pairingStates, disk, cleanupTimers>>]_vars

C14_Witness ==
  /\ rejected.kind = "invalid"
  /\ \E a \in Attempts : \E k \in Conns(a) :
       /\ conn(a, k).st = "live"
       /\ userSockets[req[a].num] = <<a, k>>
       /\ pairingStates[req[a].num].status = "pending"

\* C15: a snapshot carries a credential blob exactly when its status is
\* completed, and the session query answers 404 without a snapshot, 400 for
\* a pending one and the blob of a completed one.
C15_BlobIffCompleted ==
  \A n \in Numbers :
    LET state == pairingStates[n]
        answer == SessionOf(pairingStates, n)
    IN /\ state # NoState => (state.base64Creds # NoBlob <=> state.status = "completed")
       /\ state = NoState => answer = [http |-> 404, sessionId |-> NoBlob]
       /\ state.status = "pending" => answer = [http |-> 400, sessionId |-> NoBlob]
       /\ state.status = "completed" =>
            answer = [http |-> 200, sessionId |-> state.base64Creds]
       /\ answer.sessionId # NoBlob => state.status = "completed"

C15_Witness ==
  \E a \in Attempts :
    LET n == req[a].num IN
    /\ req[a].res.kind = "code"
    /\ conn(a, 1).written = 1
    /\ SessionOf(pairingStates, n).http = 200
    /\ SessionOf(pairingStates, n).sessionId = EncodeCreds([id |-> <<a, 1>>, reg |-> TRUE])

\* a step taken for number n: a start, a step of one of its attempts'
\* connections or handles, or one of its cleanup timers
StepFor(n) ==
  \/ \E input \in Inputs \cup OtherInputs :
       WellFormed(input) /\ Normalize(input) = n /\ Pair(input)
  \/ \E a \in Attempts : \E k \in Conns(a) :
       /\ req[a].num = n
       /\ \/ \E corrupt \in BOOLEAN : LoadAuth(a, k, corrupt)
          \/ Connect(a, k)
          \/ CodeResolve(a, k)
          \/ CodeReject(a, k)
          \/ Open(a, k)
          \/ HarvestFire(a, k)
          \/ \E i \in 1..Len(conn(a, k).inflight) : HarvestDone(a, k, i) \/ HarvestFail(a, k, i)
          \/ \E reason \in Reasons : Close(a, k, reason)
          \/ RetryFire(a, k)
          \/ ShutdownFire(a, k)
          \/ \E reg \in BOOLEAN : CredsUpdate(a, k, reg)
  \/ \E delay \in CleanupDelays : CleanupFire(n, delay)

\* the step leaves everything of number m as it was
Untouched(m) ==
  /\ userSockets'[m] = userSockets[m]
  /\ pairingStates'[m] = pairingStates[m]
  /\ disk'[m] = disk[m]
  /\ \A delay \in CleanupDelays : cleanupTimers'[<<m, delay>>] = cleanupTimers[<<m, delay>>]
  /\ \A b \in Attempts : req[b].num = m => req'[b] = req[b]

\* C16: a step taken for one number leaves the registry entries, the
\* storage, the cleanup timers and the attempts (retryCount, connections,
\* timers) of every other number unchanged.
C16_NumbersIndependent ==
  [][\A n \in Numbers : StepFor(n) => \A m \in Numbers \ {n} : Untouched(m)]_vars

C16_Witness ==
  \E a, b \in Attempts :
    /\ req[a].num # req[b].num
    /\ conn(a, 1).cls = "Forbidden"
    /\ pairingStates[req[a].num] = NoState
    /\ disk[req[a].num] = AbsentDir
    /\ pairingStates[req[b].num].status = "pending"
    /\ userSockets[req[b].num] = <<b, 1>>
    /\ disk[req[b].num].dir

\* C17: once an attempt was answered with a pairing code, its reconnects
\* request no new code from the transport, and the pending snapshot keeps
\* the code that was issued first.
C17_CodeReused ==
  \A a \in Attempts :
    req[a].res.kind = "code" =>
      /\ \A k \in Conns(a) : k > 1 => conn(a, k).pc # "code"
      /\ pairingStates[req[a].num].status = "pending" =>
           pairingStates[req[a].num].pairingCode = req[a].res.code

\* C18: a retryable close increments retryCount and arms the retry with
\* the classified delay, and as long as the incremented value is at most
\* the cap, the retry opens a new connection instead of giving up.
C18_RetryUpToCap ==
  [][\A a \in Attempts : \A k \in Conns(a) :
       /\ \A reason \in Reasons \ {401, 403} :
            Close(a, k, reason) =>
              /\ req'[a].retryCount = req[a].retryCount + 1
              /\ req'[a].conns[k].retry = TableDelay(reason)
       /\ (RetryFire(a, k) /\ req[a].retryCount <= maxRetries) =>
            /\ ~req'[a].aborted
            /\ Len(req'[a].conns) = Len(req[a].conns) + 1]_vars

\* nothing of number n is left: no directory, no handle entry, no snapshot
Gone(d, sockets, states, n) ==
  d[n] = AbsentDir /\ sockets[n] = NoConn /\ states[n] = NoState

\* C19: the firing of a cleanup timer of number n leaves no directory and
\* neither registry entry of n, and it is idempotent: fired when all of it
\* is gone already (as the second of two timers is), it changes nothing
\* but the timer itself.
C19_CleanupIdempotent ==
  [][\A n \in Numbers : \A delay \in CleanupDelays :
       CleanupFire(n, delay) =>
         /\ Gone(disk', userSockets', pairingStates', n)
         /\ cleanupTimers'[<<n, delay>>] = cleanupTimers[<<n, delay>>] - 1
         /\ req' = req
         /\ Gone(disk, userSockets, pairingStates, n) =>
              /\ disk' = disk
              /\ userSockets' = userSockets
              /\ pairingStates' = pairingStates]_vars

C19_Witness ==
  \E a \in Attempts : \E k \in Conns(a) :
    LET n == req[a].num IN
    /\ conn(a, k).written = 2
    /\ conn(a, k).cT = 0
    /\ cleanupTimers[<<n, DefaultCleanupDelay>>] = 1
    /\ Gone(disk, userSockets, pairingStates, n)

\* the keep-alive of every handle of number n is cleared
KeepAliveOff(r, n) ==
  \A a \in 1..Len(r) : r[a].num = n => \A k \in 1..Len(r[a].conns) : ~r[a].conns[k].ka

\* on one handle: "open", "close", a failed pairing-code request and the
\* already-registered outcome clear the keep-alive, and it is not set again
KeepAliveStaysOff ==
  [][\A a \in Attempts : \A k \in Conns(a) :
       /\ (\/ Open(a, k)
           \/ \E reason \in Reasons : Close(a, k, reason)
           \/ CodeReject(a, k)
           \/ (Connect(a, k) /\ conn(a, k).auth.reg)) => ~req'[a].conns[k].ka
       /\ (conn(a, k).st # "none" /\ ~conn(a, k).ka) => ~req'[a].conns[k].ka]_vars

\* C20: the keep-alive of a handle is cancelled when its session completes
\* or closes and stays cancelled, and when the session of a number is torn
\* down (terminal close or cleanup) no keep-alive of that number is left.
C20_KeepAliveCancelled ==
  /\ KeepAliveStaysOff
  /\ [][\A n \in Numbers :
          (\/ \E delay \in CleanupDelays : CleanupFire(n, delay)
           \/ \E a \in Attempts : \E k \in Conns(a) :
                req[a].num = n /\ (Close(a, k, 401) \/ Close(a, k, 403)))
          => KeepAliveOff(req', n)]_vars

\* C21: a cleanup timer armed before a start was accepted does not remove
\* the handle entry, the snapshot or the storage of the session that start
\* opened: when every pending cleanup of the number predates its latest
\* attempt and that attempt's handle is registered, a firing leaves them.
C21_NoStaleTimer ==
  [][\A n \in Numbers : \A delay \in CleanupDelays :
       LET b == Latest(n) IN
       (/\ CleanupFire(n, delay)
        /\ b # 0
        /\ Armed(n) = req[b].armedBefore
        /\ userSockets[n] # NoConn
        /\ userSockets[n][1] = b)
       => /\ userSockets'[n] = userSockets[n]
          /\ pairingStates'[n] = pairingStates[n]
          /\ disk'[n] = disk[n]]_vars

\* C22: a number whose snapshot is pending has a handle registered in
\* userSockets, so that a new start for it is refused.
C22_PendingHasHandle ==
  \A n \in Numbers :
    pairingStates[n].status = "pending" => userSockets[n] # NoConn

\* C23: no number stays blocked: while a handle is registered for a number
\* whose start was answered, a timer or an await of the manager that can
\* lead to its removal is still to run, also when the transport delivers
\* nothing more.
C23_NotBlockedForever ==
  \A n \in Numbers :
    (userSockets[n] # NoConn /\ Latest(n) # 0 /\ headersSent(Latest(n)))
    => ENABLED ManagerStep

====
